---- MODULE Spec2Model ----
(***************************************************************************)
(* A model of aws.py: the fleet manager (lookup_aws_instances, tf_job,     *)
(* terminate_job), the remote shell connector (_ssh_to_host), the Job /    *)
(* Task objects and the streaming executor (_ExecuteCommandAndStreamOutput *)
(* with its drains).  The cloud provider (boto3) and the shell library     *)
(* (paramiko) are the environment: the provider is a table of instances    *)
(* whose states move on their own, a connection attempt succeeds or fails  *)
(* as the environment decides, the remote command writes what it writes.   *)
(***************************************************************************)
EXTENDS Integers, Sequences, FiniteSets, TLC

\* ------------------------------------------------------------------ bounds
\* Instances that may exist before the program starts (ids 1..MaxPre).
MaxPre == 2
\* Largest num_tasks a caller asks for.  EC2's create request takes a positive
\* count, so callers ask for 1..MaxTasks.
MaxTasks == 2
\* Fleet operations (tf_job, terminate_job) issued in one run.
MaxOps == 1
\* Calls on Job / Task / _ssh_to_host a caller makes in one run.
MaxCalls == 2
\* SSHClient objects constructed in one run.
MaxClients == 2
\* Largest retry a caller passes to _ssh_to_host directly.
MaxRetry == 1
\* Largest value time.time() returns (whole seconds from 0).
MaxClock == 1
\* Threads Task.run starts in one run.
MaxRuns == 1
\* Invocations of Task.run that concurrent callers issue in one run.
MaxInvocations == 2
\* Lines the remote command writes to each of its two streams.
MaxLines == 2
\* Largest exit status of the remote command.
MaxExit == 1

\* --------------------------------------------------------- program constants
KEY_NAME == "yaroslav"
LOCAL_TASKLOGDIR_PREFIX == "/temp/tasklogs"
\* retry=10, the default of _ssh_to_host, which Task.initialize relies on.
DEFAULT_RETRY == 10
TODO_INSTRUCTIONS == "<todo: add instructions>"

\* The value of an instance's Name tag when it has none (inst_name = '').
NoName == ""
JobNames == {"train", "eval"}
TagValues == JobNames \cup {NoName}
KeyNames == {KEY_NAME, "other"}
\* Ids for the instances that may exist before and for those MaxOps calls of
\* tf_job can create.
InstIds == 1..(MaxPre + MaxOps * MaxTasks)
None == "None"

VARIABLES
  instances,  \* the provider's table: id -> [state, name, key]
  nextId,     \* the id the provider gives the next created instance
  fm,         \* the fleet operation in progress (tf_job / terminate_job) and its frame
  jobs,       \* the Job objects constructed so far, in order, with their Tasks
  stack,      \* the caller's call stack on Job / Task / _ssh_to_host, innermost last
  call,       \* the caller's current (or last) top-level call and what it did
  retval,     \* the value the last returned callee handed to its caller
  sshlast,    \* the current (or last) _ssh_to_host call: retry, attempts, result
  nclients,   \* SSHClient objects constructed so far
  clock,      \* time.time()
  threads,    \* the threads Task.run started
  logdirs,    \* the local directories that exist
  callers,    \* the invocations of Task.run made by concurrent callers, step by step
  ex          \* a call of _ExecuteCommandAndStreamOutput, its two drains, the files

streamVars == <<callers, ex>>
taskVars == <<stack, call, retval, sshlast, nclients, clock, threads, logdirs,
              streamVars>>
vars == <<instances, nextId, fm, jobs, taskVars>>

\* ------------------------------------------------------------ pure helpers
Range(s) == {s[k] : k \in 1..Len(s)}

\* All enumerations of a finite set as a sequence without repetition: the order
\* in which the provider lists instances is the provider's choice.
Perms(S) ==
  {s \in [1..Cardinality(S) -> S] : \A a, b \in 1..Cardinality(S) : a # b => s[a] # s[b]}

Absent == [state |-> "absent", name |-> NoName, key |-> None]

\* ec2.create_instances(..., KeyName=KEY_NAME): a new instance starts pending,
\* untagged, with the program's key.
NewInstance == [state |-> "pending", name |-> NoName, key |-> KEY_NAME]

\* The values of Task.ssh_client: the attribute before initialize assigned it,
\* None, or an SSHClient object (its identity, the host it was made for, whether
\* a connect on it succeeded).
Unset == [kind |-> "unset", id |-> 0, host |-> 0, connected |-> FALSE]
NoneClient == [kind |-> "None", id |-> 0, host |-> 0, connected |-> FALSE]
SSHClient(id, host, connected) ==
  [kind |-> "client", id |-> id, host |-> host, connected |-> connected]

\* Task.__init__
Task(instance, jobname, task_id) ==
  [instance |-> instance,
   job |-> jobname,
   id |-> task_id,
   initialized |-> FALSE,
   local_tasklogdir |-> <<LOCAL_TASKLOGDIR_PREFIX, jobname, task_id>>,
   last_stdout |-> <<>>,
   last_stderr |-> <<>>,
   ssh_client |-> Unset,
   connect_instructions |-> "unset"]

\* Job.__init__: task ids by enumeration of the instances, from 0.
Job(name, insts) ==
  [name |-> name,
   tasks |-> [k \in 1..Len(insts) |-> Task(insts[k], name, k - 1)]]

\* ------------------------------------------------------ lookup_aws_instances
\* The filter of the list request: instance-state-name = running.
RunningFilter(inst) == inst.state = "running"

\* The body of the loop of lookup_aws_instances for one listed instance:
\* kept when its Name tag equals name and its key is KEY_NAME.
LookupKeepsAnyKey(inst, name) == inst.name = name

LookupKeeps(inst, name) ==
  /\ inst.name = name
  /\ inst.key = KEY_NAME

LookupSet(name) ==
  {i \in InstIds : RunningFilter(instances[i]) /\ LookupKeeps(instances[i], name)}

\* The results lookup_aws_instances may return: the kept instances, in the
\* order the provider listed them.
lookup_aws_instances(name) == Perms(LookupSet(name))

\* The listed instances for which lookup_aws_instances prints "name matches, but
\* key name ... doesn't match ..., skipping".
LookupSkips(name) ==
  {i \in InstIds : /\ RunningFilter(instances[i])
                   /\ instances[i].name = name
                   /\ ~LookupKeeps(instances[i], name)}

\* ------------------------------------------------------------ the call log
\* The requests of the operation in progress that list or change the provider's
\* table (list, create, tag, terminate); a reload of one instance is a read and
\* leaves its trace in fm.obs.
ApiCall(kind, id, name, n) == [call |-> kind, id |-> id, name |-> name, n |-> n]

CallsOf(log, kind) == {k \in 1..Len(log) : log[k].call = kind}

Idle ==
  [op |-> "idle", pc |-> "idle", name |-> NoName, num |-> 0,
   found |-> <<>>, nfound |-> 0, skipped |-> {}, created |-> <<>>, idx |-> 0,
   log |-> <<>>, obs |-> [i \in {} |-> None],
   outcome |-> "none", exc |-> None, jobs0 |-> 0, seq |-> 0]

\* ------------------------------------------------------------------ tf_job
\* A caller invokes tf_job(name, num_tasks).
TfJobStart(name, num) ==
  /\ fm.pc \in {"idle", "done"}
  /\ fm.seq < MaxOps
  /\ fm' = [Idle EXCEPT !.op = "tf_job", !.pc = "lookup", !.name = name,
                        !.num = num, !.jobs0 = Len(jobs), !.seq = fm.seq + 1]
  /\ UNCHANGED <<taskVars, instances, nextId, jobs>>

FleetSizeExact(found, num) == Len(found) = num

FleetSizeAny(found, num) == Len(found) >= 1

\* The assertion on an existing fleet: len(instances) >= num_tasks.
FleetSizeOk(found, num) == Len(found) >= num

\* instances = lookup_aws_instances(name); if instances: assert ... else: ...
TfJobLookup ==
  /\ fm.op = "tf_job" /\ fm.pc = "lookup"
  /\ \E found \in lookup_aws_instances(fm.name) :
       LET f1 == [fm EXCEPT !.found = found, !.nfound = Len(found),
                            !.skipped = LookupSkips(fm.name),
                            !.log = Append(fm.log, ApiCall("list", 0, NoName, 0))]
       IN  fm' = IF found # <<>>
                   THEN IF FleetSizeOk(found, fm.num)
                          THEN [f1 EXCEPT !.pc = "construct"]
                          ELSE [f1 EXCEPT !.pc = "done", !.outcome = "raised",
                                          !.exc = "FleetSizeMismatch"]
                   ELSE [f1 EXCEPT !.pc = "create"]
  /\ UNCHANGED <<taskVars, instances, nextId, jobs>>

CreateCountOneMore(num) == num + 1

\* MinCount / MaxCount of the create request.
CreateCount(num) == num

\* instances = ec2.create_instances(MinCount=num_tasks, MaxCount=num_tasks, ...)
TfJobCreate ==
  /\ fm.op = "tf_job" /\ fm.pc = "create"
  /\ LET n == CreateCount(fm.num)
         new == [k \in 1..n |-> nextId + k - 1]
     IN  /\ Range(new) \subseteq InstIds
         /\ instances' = [i \in InstIds |->
                            IF i \in Range(new) THEN NewInstance ELSE instances[i]]
         /\ nextId' = nextId + n
         /\ fm' = [fm EXCEPT !.found = new, !.created = new, !.idx = 1,
                             !.pc = "tag",
                             !.log = Append(fm.log, ApiCall("create", 0, NoName, n))]
  /\ UNCHANGED <<taskVars, jobs>>

\* The instances the tagging loop visits.
TagTargets(insts) == 1..Len(insts)

\* for instance in instances: ec2.create_tags(Resources=[instance.id], Name=name)
TfJobTag ==
  /\ fm.op = "tf_job" /\ fm.pc = "tag"
  /\ fm.idx \in TagTargets(fm.found)
  /\ LET i == fm.found[fm.idx]
     IN  /\ instances' = [instances EXCEPT ![i].name = fm.name]
         /\ fm' = [fm EXCEPT !.idx = fm.idx + 1,
                             !.log = Append(fm.log, ApiCall("tag", i, fm.name, 0))]
  /\ UNCHANGED <<taskVars, nextId, jobs>>

\* After the tagging loop: assert len(instances) == num_tasks.
TfJobAssertCreated ==
  /\ fm.op = "tf_job" /\ fm.pc = "tag"
  /\ fm.idx \notin TagTargets(fm.found)
  /\ fm' = IF Len(fm.found) = fm.num
             THEN [fm EXCEPT !.pc = "construct"]
             ELSE [fm EXCEPT !.pc = "done", !.outcome = "raised",
                             !.exc = "AssertionError"]
  /\ UNCHANGED <<taskVars, instances, nextId, jobs>>

\* job = Job(name, instances=instances); return job
TfJobReturn ==
  /\ fm.op = "tf_job" /\ fm.pc = "construct"
  /\ jobs' = Append(jobs, Job(fm.name, fm.found))
  /\ fm' = [fm EXCEPT !.pc = "done", !.outcome = "returned"]
  /\ UNCHANGED <<taskVars, instances, nextId>>

\* ----------------------------------------------------------- terminate_job
TerminateStart(name) ==
  /\ fm.pc \in {"idle", "done"}
  /\ fm.seq < MaxOps
  /\ fm' = [Idle EXCEPT !.op = "terminate_job", !.pc = "lookup", !.name = name,
                        !.jobs0 = Len(jobs), !.seq = fm.seq + 1]
  /\ UNCHANGED <<taskVars, instances, nextId, jobs>>

\* The phase after the kill loop or after one instance's wait, given the next index.
AfterKill(found, idx) == IF idx > Len(found) THEN "poll" ELSE "kill"

\* instances = lookup_aws_instances(name)
TerminateLookup ==
  /\ fm.op = "terminate_job" /\ fm.pc = "lookup"
  /\ \E found \in lookup_aws_instances(fm.name) :
       fm' = [fm EXCEPT !.found = found, !.nfound = Len(found), !.idx = 1,
                        !.skipped = LookupSkips(fm.name),
                        !.obs = [i \in Range(found) |-> None],
                        !.pc = IF found = <<>> THEN "done" ELSE "kill",
                        !.outcome = IF found = <<>> THEN "returned" ELSE "none",
                        !.log = Append(fm.log, ApiCall("list", 0, NoName, 0))]
  /\ UNCHANGED <<taskVars, instances, nextId, jobs>>

\* What the provider does with a terminate request.
Terminated(inst) ==
  IF inst.state \in {"pending", "running"}
    THEN [inst EXCEPT !.state = "shutting-down"]
    ELSE inst

\* for i in instances: i.terminate()
TerminateKill ==
  /\ fm.op = "terminate_job" /\ fm.pc = "kill"
  /\ LET i == fm.found[fm.idx]
     IN  /\ instances' = [instances EXCEPT ![i] = Terminated(instances[i])]
         /\ fm' = [fm EXCEPT !.idx = IF fm.idx = Len(fm.found) THEN 1 ELSE fm.idx + 1,
                             !.pc = AfterKill(fm.found, fm.idx + 1),
                             !.log = Append(fm.log, ApiCall("terminate", i, NoName, 0))]
  /\ UNCHANGED <<taskVars, nextId, jobs>>

TermReachedDying(st) == st \in {"shutting-down", "terminated"}

\* if i.state['Name'] == 'terminated': break
TermReached(st) == st = "terminated"

\* i.load() and the test of the wait loop, for the instance at idx.
TerminatePoll ==
  /\ fm.op = "terminate_job" /\ fm.pc = "poll"
  /\ LET i == fm.found[fm.idx]
         st == instances[i].state
         f1 == [fm EXCEPT !.obs[i] = st]
     IN  fm' = IF TermReached(st)
                 THEN IF fm.idx = Len(fm.found)
                        THEN [f1 EXCEPT !.pc = "done", !.outcome = "returned"]
                        ELSE [f1 EXCEPT !.idx = fm.idx + 1]
                 ELSE [f1 EXCEPT !.pc = "sleep"]
  /\ UNCHANGED <<taskVars, instances, nextId, jobs>>

TerminateSleepGiveUp ==
  /\ fm.op = "terminate_job" /\ fm.pc = "sleep"
  /\ fm' = [fm EXCEPT !.pc = "done", !.outcome = "raised", !.exc = "Timeout"]
  /\ UNCHANGED <<taskVars, instances, nextId, jobs>>

\* time.sleep(5), then i.load() again.
TerminateSleep ==
  /\ fm.op = "terminate_job" /\ fm.pc = "sleep"
  /\ fm' = [fm EXCEPT !.pc = "poll"]
  /\ UNCHANGED <<taskVars, instances, nextId, jobs>>

\* ------------------------------------------------------------ the provider
\* A pending instance comes up.
InstanceBoot(i) ==
  /\ instances[i].state = "pending"
  /\ instances' = [instances EXCEPT ![i].state = "running"]
  /\ UNCHANGED <<taskVars, nextId, fm, jobs>>

\* An instance that was told to terminate reaches the terminal state.
InstanceDie(i) ==
  /\ instances[i].state = "shutting-down"
  /\ instances' = [instances EXCEPT ![i].state = "terminated"]
  /\ UNCHANGED <<taskVars, nextId, fm, jobs>>


\* ------------------------------------------------------- the caller's stack
Frame(fn, j, t, pc) ==
  [fn |-> fn, j |-> j, t |-> t, pc |-> pc, idx |-> 0, counter |-> 0,
   client |-> 0, host |-> 0]

NoCall ==
  [fn |-> "none", j |-> 0, t |-> 0, pre |-> <<>>, attempts |-> 0, sleeps |-> 0,
   outcome |-> "none", exc |-> None, seq |-> 0]

NoSsh == [retry |-> 0, host |-> 0, log |-> <<>>, value |-> Unset, returned |-> FALSE]

\* The threads of the program that call Task.run side by side.
Callers == {"c1", "c2"}

\* A caller that is not inside run.
IdleCaller ==
  [pc |-> "idle", j |-> 0, t |-> 0, inv |-> 0, timestamp |-> <<>>]

\* by: where each caller is; hist: the invocations of run in the order they
\* were issued (on which Task, how many threads run had started by then, how
\* it ended).
NoCallers == [by |-> [c \in Callers |-> IdleCaller], hist |-> <<>>]

\* No call of the streaming executor is in progress.
NoExec == [pc |-> "idle"]

TaskVarsInit ==
  /\ stack = <<>>
  /\ call = NoCall
  /\ retval = Unset
  /\ sshlast = NoSsh
  /\ nclients = 0
  /\ clock = 0
  /\ threads = <<>>
  /\ logdirs = {}
  /\ callers = NoCallers
  /\ ex = NoExec

Top == stack[Len(stack)]
Popped == SubSeq(stack, 1, Len(stack) - 1)
SetTop(f) == [stack EXCEPT ![Len(stack)] = f]
TopIs(fn, pc) == stack # <<>> /\ Top.fn = fn /\ Top.pc = pc
TopTask == jobs[Top.j].tasks[Top.t]

CallerIdle == stack = <<>> /\ call.seq < MaxCalls

\* The record of a top-level call at its start; pre is the Task it is made on.
StartCall(fn, j, t) ==
  [fn |-> fn, j |-> j, t |-> t,
   pre |-> IF t > 0 THEN <<jobs[j].tasks[t]>> ELSE <<>>,
   attempts |-> 0, sleeps |-> 0, outcome |-> "none", exc |-> None,
   seq |-> call.seq + 1]

\* The call's record when the stack is stk after a return.
Finish(c, stk) == IF stk = <<>> THEN [c EXCEPT !.outcome = "returned"] ELSE c

\* An exception no frame catches: the whole stack unwinds.
Raised(c, exc) == [c EXCEPT !.outcome = "raised", !.exc = exc]

\* --------------------------------------------------------------- _ssh_to_host
SshFrame(host, retry, cid) ==
  [Frame("_ssh_to_host", 0, 0, "loop") EXCEPT
     !.counter = retry, !.client = cid, !.host = host]

SshStarted(host, retry) ==
  [retry |-> retry, host |-> host, log |-> <<>>, value |-> Unset, returned |-> FALSE]

\* A caller invokes _ssh_to_host(hostname, ssh_key, retry=retry) itself.
CallSsh(host, retry) ==
  /\ CallerIdle
  /\ nclients < MaxClients
  /\ stack' = <<SshFrame(host, retry, nclients + 1)>>
  /\ call' = StartCall("_ssh_to_host", 0, 0)
  /\ sshlast' = SshStarted(host, retry)
  /\ nclients' = nclients + 1
  /\ UNCHANGED <<streamVars, instances, nextId, fm, jobs, retval, clock, threads, logdirs>>

\* while counter > 0
KeepTrying(counter) == counter > 0

GaveUpNever(counter) == FALSE

\* if counter == 0: return None
GaveUp(counter) == counter = 0

\* The environment: a connect can succeed when the host is up.
ConnectMaySucceed(host) == instances[host].state = "running"

\* ssh_client.connect(...) succeeds: break; return ssh_client
SshConnectOk ==
  /\ TopIs("_ssh_to_host", "loop")
  /\ KeepTrying(Top.counter)
  /\ ConnectMaySucceed(Top.host)
  /\ LET value == SSHClient(Top.client, Top.host, TRUE)
     IN  /\ retval' = value
         /\ sshlast' = [sshlast EXCEPT !.log = Append(sshlast.log, "ok"),
                                       !.value = value, !.returned = TRUE]
  /\ stack' = Popped
  /\ call' = Finish([call EXCEPT !.attempts = call.attempts + 1], Popped)
  /\ UNCHANGED <<streamVars, instances, nextId, fm, jobs, nclients, clock, threads, logdirs>>

\* ssh_client.connect(...) raises: counter = counter - 1; give up at 0
SshConnectFail ==
  /\ TopIs("_ssh_to_host", "loop")
  /\ KeepTrying(Top.counter)
  /\ LET c == Top.counter - 1
         log == Append(sshlast.log, "fail")
     IN  IF GaveUp(c)
           THEN /\ stack' = Popped
                /\ retval' = NoneClient
                /\ sshlast' = [sshlast EXCEPT !.log = log, !.value = NoneClient,
                                              !.returned = TRUE]
                /\ call' = Finish([call EXCEPT !.attempts = call.attempts + 1], Popped)
           ELSE /\ stack' = SetTop([Top EXCEPT !.counter = c])
                /\ sshlast' = [sshlast EXCEPT !.log = log]
                /\ call' = [call EXCEPT !.attempts = call.attempts + 1]
                /\ UNCHANGED retval
  /\ UNCHANGED <<streamVars, instances, nextId, fm, jobs, nclients, clock, threads, logdirs>>

\* The while loop ends without a break: return ssh_client
SshLoopEnd ==
  /\ TopIs("_ssh_to_host", "loop")
  /\ ~KeepTrying(Top.counter)
  /\ LET value == SSHClient(Top.client, Top.host, FALSE)
     IN  /\ retval' = value
         /\ sshlast' = [sshlast EXCEPT !.value = value, !.returned = TRUE]
  /\ stack' = Popped
  /\ call' = Finish(call, Popped)
  /\ UNCHANGED <<streamVars, instances, nextId, fm, jobs, nclients, clock, threads, logdirs>>

\* ------------------------------------------------------------ Task.initialize
\* Task.public_ip: reloads the instance; an instance that is not up has no
\* public address (0 stands for None).
public_ip(task) == IF instances[task.instance].state = "running" THEN task.instance ELSE 0

CallInitialize(j, t) ==
  /\ CallerIdle
  /\ stack' = <<Frame("initialize", j, t, "ip")>>
  /\ call' = StartCall("initialize", j, t)
  /\ UNCHANGED <<streamVars, instances, nextId, fm, jobs, retval, sshlast, nclients, clock,
                 threads, logdirs>>

\* assert self.public_ip fails
InitializeNoIp ==
  /\ TopIs("initialize", "ip")
  /\ public_ip(TopTask) = 0
  /\ stack' = <<>>
  /\ call' = Raised(call, "AssertionError")
  /\ UNCHANGED <<streamVars, instances, nextId, fm, jobs, retval, sshlast, nclients, clock,
                 threads, logdirs>>

\* self.ssh_client = _ssh_to_host(self.public_ip, SSH_KEY_PATH): the call
InitializeConnect ==
  /\ TopIs("initialize", "ip")
  /\ public_ip(TopTask) # 0
  /\ nclients < MaxClients
  /\ stack' = Append(SetTop([Top EXCEPT !.pc = "assign"]),
                     SshFrame(public_ip(TopTask), DEFAULT_RETRY, nclients + 1))
  /\ sshlast' = SshStarted(public_ip(TopTask), DEFAULT_RETRY)
  /\ nclients' = nclients + 1
  /\ UNCHANGED <<streamVars, instances, nextId, fm, jobs, call, retval, clock, threads, logdirs>>

InitializedAfterAlways(task, client) == TRUE

\* if self.ssh_client is None: return; self.initialized = True
InitializedAfter(task, client) ==
  IF client.kind = "None" THEN task.initialized ELSE TRUE

\* self.ssh_client = <the value returned>, and the rest of initialize
InitializeAssign ==
  /\ TopIs("initialize", "assign")
  /\ jobs' = [jobs EXCEPT ![Top.j].tasks[Top.t] =
                [TopTask EXCEPT !.ssh_client = retval,
                                !.initialized = InitializedAfter(TopTask, retval)]]
  /\ stack' = Popped
  /\ call' = Finish(call, Popped)
  /\ UNCHANGED <<streamVars, instances, nextId, fm, retval, sshlast, nclients, clock, threads,
                 logdirs>>

\* ------------------------------------------------------ Task.wait_until_ready
CallTaskWait(j, t) ==
  /\ CallerIdle
  /\ stack' = <<Frame("Task.wait_until_ready", j, t, "test")>>
  /\ call' = StartCall("Task.wait_until_ready", j, t)
  /\ UNCHANGED <<streamVars, instances, nextId, fm, jobs, retval, sshlast, nclients, clock,
                 threads, logdirs>>

WaitLoopCondAlways(task) == TRUE

\* while not self.initialized
WaitLoopCond(task) == ~task.initialized

\* self.initialize(), inside the loop
TaskWaitInitialize ==
  /\ TopIs("Task.wait_until_ready", "test")
  /\ WaitLoopCond(TopTask)
  /\ stack' = Append(SetTop([Top EXCEPT !.pc = "after"]),
                     Frame("initialize", Top.j, Top.t, "ip"))
  /\ UNCHANGED <<streamVars, instances, nextId, fm, jobs, call, retval, sshlast, nclients, clock,
                 threads, logdirs>>

\* if self.initialized: break, failing that time.sleep(5) and the loop test again
TaskWaitSleep ==
  /\ TopIs("Task.wait_until_ready", "after")
  /\ ~TopTask.initialized
  /\ stack' = SetTop([Top EXCEPT !.pc = "test"])
  /\ call' = [call EXCEPT !.sleeps = call.sleeps + 1]
  /\ UNCHANGED <<streamVars, instances, nextId, fm, jobs, retval, sshlast, nclients, clock,
                 threads, logdirs>>

\* The loop is left (its test fails, or the break): self.connect_instructions = ...
TaskWaitReturn ==
  /\ \/ TopIs("Task.wait_until_ready", "test") /\ ~WaitLoopCond(TopTask)
     \/ TopIs("Task.wait_until_ready", "after") /\ TopTask.initialized
  /\ jobs' = [jobs EXCEPT ![Top.j].tasks[Top.t].connect_instructions = TODO_INSTRUCTIONS]
  /\ stack' = Popped
  /\ call' = Finish(call, Popped)
  /\ UNCHANGED <<streamVars, instances, nextId, fm, retval, sshlast, nclients, clock, threads,
                 logdirs>>

\* ------------------------------------------------------- Job.wait_until_ready
CallJobWait(j) ==
  /\ CallerIdle
  /\ stack' = <<[Frame("Job.wait_until_ready", j, 0, "loop") EXCEPT !.idx = 1]>>
  /\ call' = StartCall("Job.wait_until_ready", j, 0)
  /\ UNCHANGED <<streamVars, instances, nextId, fm, jobs, retval, sshlast, nclients, clock,
                 threads, logdirs>>

JobWaitNextNoWait ==
  /\ TopIs("Job.wait_until_ready", "loop")
  /\ Top.idx <= Len(jobs[Top.j].tasks)
  /\ stack' = Append(SetTop([Top EXCEPT !.idx = Top.idx + 1]),
                     Frame("initialize", Top.j, Top.idx, "ip"))
  /\ UNCHANGED <<streamVars, instances, nextId, fm, jobs, call, retval, sshlast, nclients, clock,
                 threads, logdirs>>

\* for task in self.tasks: task.wait_until_ready()
JobWaitNext ==
  /\ TopIs("Job.wait_until_ready", "loop")
  /\ Top.idx <= Len(jobs[Top.j].tasks)
  /\ stack' = Append(SetTop([Top EXCEPT !.idx = Top.idx + 1]),
                     Frame("Task.wait_until_ready", Top.j, Top.idx, "test"))
  /\ UNCHANGED <<streamVars, instances, nextId, fm, jobs, call, retval, sshlast, nclients, clock,
                 threads, logdirs>>

\* The loop over the tasks is over.
JobWaitReturn ==
  /\ TopIs("Job.wait_until_ready", "loop")
  /\ Top.idx > Len(jobs[Top.j].tasks)
  /\ stack' = Popped
  /\ call' = Finish(call, Popped)
  /\ UNCHANGED <<streamVars, instances, nextId, fm, jobs, retval, sshlast, nclients, clock,
                 threads, logdirs>>

\* ------------------------------------------- Task.run_sync, upload and run
\* What a use of self.ssh_client for a command or a transfer does: without the
\* attribute or with None it raises AttributeError, on a client that never
\* connected the shell library raises, on a connected one it goes through.
UseClient(client) ==
  IF client.kind # "client" THEN "AttributeError"
  ELSE IF ~client.connected THEN "SSHException"
  ELSE "ok"

\* Task.run_sync(cmd)
TaskRunSync(j, t) ==
  /\ CallerIdle
  /\ LET c == StartCall("run_sync", j, t)
         r == UseClient(jobs[j].tasks[t].ssh_client)
     IN  call' = IF r = "ok" THEN [c EXCEPT !.outcome = "returned"] ELSE Raised(c, r)
  /\ UNCHANGED <<streamVars, instances, nextId, fm, jobs, stack, retval, sshlast, nclients, clock,
                 threads, logdirs>>

\* Task.upload(local_file): self.wait_until_ready() first
CallUpload(j, t) ==
  /\ CallerIdle
  /\ stack' = <<Frame("upload", j, t, "sftp"),
                Frame("Task.wait_until_ready", j, t, "test")>>
  /\ call' = StartCall("upload", j, t)
  /\ UNCHANGED <<streamVars, instances, nextId, fm, jobs, retval, sshlast, nclients, clock,
                 threads, logdirs>>

\* sftp = self.ssh_client.open_sftp(); sftp.put(local_file, remote_file)
UploadPut ==
  /\ TopIs("upload", "sftp")
  /\ LET r == UseClient(TopTask.ssh_client)
     IN  IF r = "ok"
           THEN stack' = Popped /\ call' = Finish(call, Popped)
           ELSE stack' = <<>> /\ call' = Raised(call, r)
  /\ UNCHANGED <<streamVars, instances, nextId, fm, jobs, retval, sshlast, nclients, clock,
                 threads, logdirs>>

RECURSIVE Pow2(_)
Pow2(n) == IF n = 0 THEN 1 ELSE 2 * Pow2(n - 1)

\* struct.pack('d', value) for a whole number 0 <= value < 2^20 (the clock of
\* the model counts whole seconds): the 8 bytes of the IEEE-754 double, sign 0,
\* exponent 1023 + e, fraction (value - 2^e) * 2^(52 - e), in the machine's
\* byte order (little-endian, least significant byte first).  The low four
\* bytes of such a double are 0; hi is its high word.
pack_d(value) ==
  LET e == CHOOSE x \in 0..19 : Pow2(x) <= value /\ value < Pow2(x + 1)
      hi == IF value = 0 THEN 0
            ELSE (1023 + e) * Pow2(20) + (value - Pow2(e)) * Pow2(20 - e)
  IN  <<0, 0, 0, 0, hi % 256, (hi \div 256) % 256, (hi \div 65536) % 256,
        hi \div 16777216>>

\* base64.b16encode(ba).decode('ascii'): two upper-case hex digits a byte.
b16encode(bytes) ==
  LET digit(n) == <<"0", "1", "2", "3", "4", "5", "6", "7", "8", "9",
                    "A", "B", "C", "D", "E", "F">>[n + 1]
  IN  [k \in 1..(2 * Len(bytes)) |->
         IF k % 2 = 1 THEN digit(bytes[(k + 1) \div 2] \div 16)
                      ELSE digit(bytes[k \div 2] % 16)]

\* _encode_float(value)
_encode_float(value) == b16encode(pack_d(value))

RunAllowedAlways(task) == TRUE

\* assert self.initialized
RunAllowed(task) == task.initialized

\* stdout_fn = "%s/%s.stdout" % (self.local_tasklogdir, timestamp), and stderr_fn
stdout_fn(task, timestamp) == <<task.local_tasklogdir, timestamp, ".stdout">>
stderr_fn(task, timestamp) == <<task.local_tasklogdir, timestamp, ".stderr">>

\* What a thread running _ExecuteCommandAndStreamOutput ends as: it returned,
\* or it died using a client that cannot run the command.
ThreadEnd(ssh_client) == IF UseClient(ssh_client) = "ok" THEN "done" ELSE "died"

\* The same call made without a thread: the caller gets it back only finished.
_ExecuteCommandBlocking(j, t, inv, ssh_client, out_fn, err_fn) ==
  [j |-> j, t |-> t, inv |-> inv, ssh_client |-> ssh_client,
   stdout_file |-> out_fn, stderr_file |-> err_fn, pc |-> ThreadEnd(ssh_client)]

\* _ExecuteCommandInThread(ssh_client, cmd, stdout_file, stderr_file, ...):
\* t = threading.Thread(...); t.start(); return t.  The thread keeps the client
\* and the file names it was given; j, t and inv say which invocation of run
\* started it.
_ExecuteCommandInThread(j, t, inv, ssh_client, out_fn, err_fn) ==
  [j |-> j, t |-> t, inv |-> inv, ssh_client |-> ssh_client,
   stdout_file |-> out_fn, stderr_file |-> err_fn, pc |-> "running"]

\* Task.run(cmd) by the one sequential caller of the call stack: the assertion,
\* _setup_tasklogdir, the file names, the thread.  time.time() returns now, not
\* before the value it returned last.
TaskRun(j, t) ==
  /\ CallerIdle
  /\ LET c == StartCall("run", j, t)
         task == jobs[j].tasks[t]
     IN  IF ~RunAllowed(task)
           THEN /\ call' = Raised(c, "AssertionError")
                /\ UNCHANGED <<jobs, threads, logdirs, clock>>
           ELSE /\ Len(threads) < MaxRuns
                /\ \E now \in clock..MaxClock :
                     LET timestamp == _encode_float(now)
                     IN  /\ clock' = now
                         /\ jobs' = [jobs EXCEPT ![j].tasks[t] =
                                       [task EXCEPT
                                          !.last_stdout = stdout_fn(task, timestamp),
                                          !.last_stderr = stderr_fn(task, timestamp)]]
                         /\ threads' = Append(threads,
                                         _ExecuteCommandInThread(
                                           j, t, Len(threads) + 1, task.ssh_client,
                                           stdout_fn(task, timestamp),
                                           stderr_fn(task, timestamp)))
                /\ logdirs' = logdirs \cup {task.local_tasklogdir}
                /\ call' = [c EXCEPT !.outcome = "returned"]
  /\ UNCHANGED <<streamVars, instances, nextId, fm, stack, retval, sshlast, nclients>>

\* A thread started by run executes _ExecuteCommandAndStreamOutput to its end
\* (the executor's own steps are those of ExecCall .. ExecReturn below).
ThreadFinish(k) ==
  /\ threads[k].pc = "running"
  /\ threads' = [threads EXCEPT ![k].pc = ThreadEnd(threads[k].ssh_client)]
  /\ UNCHANGED <<streamVars, instances, nextId, fm, jobs, stack, call, retval, sshlast, nclients,
                 clock, logdirs>>

\* ------------------------------------------- Task.run, callers side by side
\* The same method as TaskRun, statement by statement, for callers that run
\* side by side: another caller's statements may come between any two.
Invocation(j, t, outcome) ==
  [j |-> j, t |-> t, seen |-> Len(threads), outcome |-> outcome]

\* run is entered: assert self.initialized, then self._setup_tasklogdir()
RunEnter(c, j, t) ==
  /\ callers.by[c].pc = "idle"
  /\ Len(callers.hist) < MaxInvocations
  /\ LET task == jobs[j].tasks[t]
     IN  IF ~RunAllowed(task)
           THEN /\ callers' = [callers EXCEPT
                     !.hist = Append(@, Invocation(j, t, "AssertionError"))]
                /\ UNCHANGED logdirs
           ELSE /\ callers' = [callers EXCEPT
                     !.hist = Append(@, Invocation(j, t, "none")),
                     !.by[c] = [IdleCaller EXCEPT !.pc = "stamp", !.j = j, !.t = t,
                                                  !.inv = Len(callers.hist) + 1]]
                /\ logdirs' = logdirs \cup {task.local_tasklogdir}
  /\ UNCHANGED <<instances, nextId, fm, jobs, stack, call, retval, sshlast, nclients,
                 clock, threads, ex>>

\* timestamp = _encode_float(time.time())
RunTimestamp(c) ==
  /\ callers.by[c].pc = "stamp"
  /\ \E now \in clock..MaxClock :
       /\ clock' = now
       /\ callers' = [callers EXCEPT !.by[c].timestamp = _encode_float(now),
                                     !.by[c].pc = "out"]
  /\ UNCHANGED <<instances, nextId, fm, jobs, stack, call, retval, sshlast, nclients,
                 threads, logdirs, ex>>

\* self.last_stdout = stdout_fn
RunSetStdout(c) ==
  /\ callers.by[c].pc = "out"
  /\ LET me == callers.by[c]
     IN  jobs' = [jobs EXCEPT ![me.j].tasks[me.t].last_stdout =
                    stdout_fn(jobs[me.j].tasks[me.t], me.timestamp)]
  /\ callers' = [callers EXCEPT !.by[c].pc = "err"]
  /\ UNCHANGED <<instances, nextId, fm, stack, call, retval, sshlast, nclients,
                 clock, threads, logdirs, ex>>

\* self.last_stderr = stderr_fn
RunSetStderr(c) ==
  /\ callers.by[c].pc = "err"
  /\ LET me == callers.by[c]
     IN  jobs' = [jobs EXCEPT ![me.j].tasks[me.t].last_stderr =
                    stderr_fn(jobs[me.j].tasks[me.t], me.timestamp)]
  /\ callers' = [callers EXCEPT !.by[c].pc = "thread"]
  /\ UNCHANGED <<instances, nextId, fm, stack, call, retval, sshlast, nclients,
                 clock, threads, logdirs, ex>>

\* _ExecuteCommandInThread(ssh_client=self.ssh_client, ...), and run returns
RunStartThread(c) ==
  /\ callers.by[c].pc = "thread"
  /\ LET me == callers.by[c]
         task == jobs[me.j].tasks[me.t]
     IN  /\ threads' = Append(threads,
                         _ExecuteCommandInThread(
                           me.j, me.t, me.inv, task.ssh_client,
                           stdout_fn(task, me.timestamp),
                           stderr_fn(task, me.timestamp)))
         /\ callers' = [callers EXCEPT !.hist[me.inv].outcome = "returned",
                                       !.by[c] = IdleCaller]
  /\ UNCHANGED <<instances, nextId, fm, jobs, stack, call, retval, sshlast, nclients,
                 clock, logdirs, ex>>

\* ------------------------------------------ _ExecuteCommandAndStreamOutput
\* The two streams of the remote command and their drains: 1 stdout, 2 stderr.
Streams == {1, 2}

\* A line on the wire: its bytes (named by stream and position) and whether
\* they are valid UTF-8.
WireLine(d, k, valid) == [bytes |-> <<"bytes", d, k>>, valid |-> valid]

\* What the remote command may write to stream d: up to MaxLines lines.
WireStreams(d) ==
  UNION {{[k \in 1..n |-> WireLine(d, k, v[k])] : v \in [1..n -> BOOLEAN]} : n \in 0..MaxLines}

\* fd.readline(2048) on a line of valid bytes: the decoded str.
utf8_decode(bytes) == <<"str", bytes[2], bytes[3]>>

\* line.encode('utf-8', errors='ignore'): the bytes of a str.
utf8_encode(str) == <<"bytes", str[2], str[3]>>

\* The exit statuses of the remote command.
ExitCodes == 0..MaxExit

\* ok_exit_status: its default [0], or a list the caller passes.
OkLists == {{0}, {0, 1}}

ExitOkZero(exit_status, ok_exit_status) == exit_status = 0

\* if exit_status in ok_exit_status
ExitOk(exit_status, ok_exit_status) == exit_status \in ok_exit_status

ObserverStdoutOnly(d, line_extractor) == line_extractor /\ d = 1

\* The line_extractor that drain d is given: both calls of _StreamOutputToFile
\* pass the executor's own.
Observer(d, line_extractor) == line_extractor

JoinedAlways(drain) == TRUE

\* t.join() returns once the thread has ended.
Joined(drain) == drain.state = "done"

NoDrain == [state |-> "none", pos |-> 0, err |-> FALSE]

\* The sink file of stream d (None if the caller gave none).
Sink(d) == IF d = 1 THEN ex.stdout_file ELSE ex.stderr_file

\* The call: the arguments are bound, nothing has run yet.
ExecCall(ssh_client, stdout_file, stderr_file, line_extractor, ok_exit_status) ==
  /\ ex.pc = "idle"
  /\ ex' = [pc |-> "exec",
            ssh_client |-> ssh_client,
            stdout_file |-> stdout_file,
            stderr_file |-> stderr_file,
            line_extractor |-> line_extractor,
            ok_exit_status |-> ok_exit_status,
            stream |-> [d \in Streams |-> <<>>],
            drain |-> [d \in Streams |-> NoDrain],
            files |-> [d \in Streams |-> <<>>],
            observed |-> [d \in Streams |-> <<>>],
            printed |-> {},
            exit_status |-> None,
            result |-> None,
            outcome |-> "none"]
  /\ UNCHANGED <<instances, nextId, fm, jobs, stack, call, retval, sshlast, nclients,
                 clock, threads, logdirs, callers>>

\* _, stdout, stderr = ssh_client.exec_command(cmd, get_pty=True): on a client
\* that cannot run it the call raises; failing that the remote command starts,
\* and what it writes to its two streams is its own.
ExecCommand ==
  /\ ex.pc = "exec"
  /\ IF UseClient(ex.ssh_client) # "ok"
       THEN ex' = [ex EXCEPT !.pc = "done", !.outcome = UseClient(ex.ssh_client)]
       ELSE \E out \in WireStreams(1), err \in WireStreams(2) :
              ex' = [ex EXCEPT !.pc = "start1", !.stream = <<out, err>>]
  /\ UNCHANGED <<instances, nextId, fm, jobs, stack, call, retval, sshlast, nclients,
                 clock, threads, logdirs, callers>>

\* if stdout_file: t1 = _StreamOutputToFile(stdout, stdout_file, line_extractor, cmd=cmd)
\* if stderr_file: t2 = _StreamOutputToFile(stderr, stderr_file, line_extractor)
ExecStart(d) ==
  /\ ex.pc = (IF d = 1 THEN "start1" ELSE "start2")
  /\ ex' = [ex EXCEPT !.pc = (IF d = 1 THEN "start2" ELSE "join1"),
                      !.drain[d].state = IF Sink(d) # None THEN "started" ELSE @]
  /\ UNCHANGED <<instances, nextId, fm, jobs, stack, call, retval, sshlast, nclients,
                 clock, threads, logdirs, callers>>

\* if stdout_file: t1.join()
\* if stderr_file: t2.join()
ExecJoin(d) ==
  /\ ex.pc = (IF d = 1 THEN "join1" ELSE "join2")
  /\ Sink(d) # None => Joined(ex.drain[d])
  /\ ex' = [ex EXCEPT !.pc = (IF d = 1 THEN "join2" ELSE "status")]
  /\ UNCHANGED <<instances, nextId, fm, jobs, stack, call, retval, sshlast, nclients,
                 clock, threads, logdirs, callers>>

\* exit_status = stdout.channel.recv_exit_status()
ExecRecvExit ==
  /\ ex.pc = "status"
  /\ \E code \in ExitCodes : ex' = [ex EXCEPT !.pc = "return", !.exit_status = code]
  /\ UNCHANGED <<instances, nextId, fm, jobs, stack, call, retval, sshlast, nclients,
                 clock, threads, logdirs, callers>>

\* return True / return False
ExecReturn ==
  /\ ex.pc = "return"
  /\ ex' = [ex EXCEPT !.pc = "done", !.outcome = "returned",
                      !.result = ExitOk(ex.exit_status, ex.ok_exit_status)]
  /\ UNCHANGED <<instances, nextId, fm, jobs, stack, call, retval, sshlast, nclients,
                 clock, threads, logdirs, callers>>

\* ------------------------------------------------------- _StreamOutputToFile
\* The thread's func: with open(file, 'ab+') as f, and for stdout (cmd is
\* passed) the command line written first.
DrainOpen(d) ==
  /\ ex.pc \notin {"idle", "exec", "done"}
  /\ ex.drain[d].state = "started"
  /\ ex' = [ex EXCEPT !.drain[d].state = "reading",
                      !.files[d] = IF d = 1 THEN <<utf8_encode(<<"str", "cmd", 0>>)>>
                                            ELSE <<>>]
  /\ UNCHANGED <<instances, nextId, fm, jobs, stack, call, retval, sshlast, nclients,
                 clock, threads, logdirs, callers>>

\* One turn of the for loop: fd.readline(2048) gives a line, which is written,
\* flushed and handed to line_extractor; or it raises UnicodeDecodeError, which
\* the try around the loop catches: the message is printed and func ends.
DrainLine(d) ==
  /\ ex.pc \notin {"idle", "exec", "done"}
  /\ ex.drain[d].state = "reading"
  /\ ex.drain[d].pos < Len(ex.stream[d])
  /\ LET wire == ex.stream[d][ex.drain[d].pos + 1]
         line == utf8_decode(wire.bytes)
     IN  IF wire.valid
           THEN ex' = [ex EXCEPT
                         !.drain[d].pos = @ + 1,
                         !.files[d] = Append(@, utf8_encode(line)),
                         !.observed[d] = IF Observer(d, ex.line_extractor)
                                           THEN Append(@, line) ELSE @]
           ELSE ex' = [ex EXCEPT
                         !.drain[d] = [state |-> "done", pos |-> @.pos + 1, err |-> TRUE],
                         !.printed = @ \cup {d}]
  /\ UNCHANGED <<instances, nextId, fm, jobs, stack, call, retval, sshlast, nclients,
                 clock, threads, logdirs, callers>>

\* fd.readline(2048) returns '' (the stream is closed): the loop and func end.
DrainEnd(d) ==
  /\ ex.pc \notin {"idle", "exec", "done"}
  /\ ex.drain[d].state = "reading"
  /\ ex.drain[d].pos = Len(ex.stream[d])
  /\ ex' = [ex EXCEPT !.drain[d].state = "done"]
  /\ UNCHANGED <<instances, nextId, fm, jobs, stack, call, retval, sshlast, nclients,
                 clock, threads, logdirs, callers>>

\* ------------------------------------------------------------ specification
\* What may be there before the program starts: nothing, a running instance
\* with a job's name and any key, a running instance without a Name tag, or a
\* stopped instance with a job's name and the program's key.
PreInstances ==
  {Absent}
    \cup [state : {"running"}, name : JobNames, key : KeyNames]
    \cup [state : {"running"}, name : {NoName}, key : {KEY_NAME}]
    \cup [state : {"stopped"}, name : JobNames, key : {KEY_NAME}]

Init ==
  /\ \E pre \in [1..MaxPre -> PreInstances] :
       instances = [i \in InstIds |-> IF i <= MaxPre THEN pre[i] ELSE Absent]
  /\ nextId = MaxPre + 1
  /\ fm = Idle
  /\ jobs = <<>>
  /\ TaskVarsInit

TfJobStep ==
  \/ \E name \in JobNames, num \in 1..MaxTasks : TfJobStart(name, num)
  \/ TfJobLookup
  \/ TfJobCreate
  \/ TfJobTag
  \/ TfJobAssertCreated
  \/ TfJobReturn

TerminateStep ==
  \/ \E name \in JobNames : TerminateStart(name)
  \/ TerminateLookup
  \/ TerminateKill
  \/ TerminatePoll
  \/ TerminateSleep

ProviderStep ==
  \/ \E i \in InstIds : InstanceBoot(i)
  \/ \E i \in InstIds : InstanceDie(i)

Next == TfJobStep \/ TerminateStep \/ ProviderStep

Spec == Init /\ [][Next]_vars

\* The Job and Task side starts from one Job a tf_job call returned: over
\* instances it created (they may still be pending) or found (running).
InitTask ==
  /\ \E st \in [1..MaxPre -> {"pending", "running"}] :
       instances = [i \in InstIds |->
                      IF i <= MaxPre
                        THEN [state |-> st[i], name |-> "train", key |-> KEY_NAME]
                        ELSE Absent]
  /\ nextId = MaxPre + 1
  /\ fm = Idle
  /\ jobs = <<Job("train", [k \in 1..MaxPre |-> k])>>
  /\ TaskVarsInit

JobIds == 1..Len(jobs)
TaskIds(j) == 1..Len(jobs[j].tasks)

CallStep ==
  \/ \E host \in 1..MaxPre, retry \in 0..MaxRetry : CallSsh(host, retry)
  \/ \E j \in JobIds : \E t \in TaskIds(j) : CallInitialize(j, t)
  \/ \E j \in JobIds : \E t \in TaskIds(j) : CallTaskWait(j, t)
  \/ \E j \in JobIds : CallJobWait(j)
  \/ \E j \in JobIds : \E t \in TaskIds(j) : TaskRunSync(j, t)
  \/ \E j \in JobIds : \E t \in TaskIds(j) : CallUpload(j, t)
  \/ \E j \in JobIds : \E t \in TaskIds(j) : TaskRun(j, t)

SshStep == SshConnectOk \/ SshConnectFail \/ SshLoopEnd

TaskStep ==
  \/ InitializeNoIp
  \/ InitializeConnect
  \/ InitializeAssign
  \/ TaskWaitInitialize
  \/ TaskWaitSleep
  \/ TaskWaitReturn
  \/ JobWaitNext
  \/ JobWaitReturn
  \/ UploadPut

EnvStep ==
  \/ \E i \in InstIds : InstanceBoot(i)
  \/ \E k \in 1..Len(threads) : ThreadFinish(k)

NextTask == CallStep \/ SshStep \/ TaskStep \/ EnvStep

SpecTask == InitTask /\ [][NextTask]_vars

\* Once terminate_job is called the program keeps executing it, and every instance
\* that was told to terminate reaches the terminal state in the end.
FairTerminate ==
  /\ WF_vars(TerminateLookup)
  /\ WF_vars(TerminateKill)
  /\ WF_vars(TerminatePoll)
  /\ WF_vars(TerminateSleep)
  /\ \A i \in InstIds : WF_vars(InstanceDie(i))

\* The fleets the termination is followed on: instances that are absent or
\* running with a job's name and the program's key.
InitFair ==
  /\ \E pre \in [1..MaxPre -> {Absent} \cup [state : {"running"}, name : JobNames,
                                                key : {KEY_NAME}]] :
       instances = [i \in InstIds |-> IF i <= MaxPre THEN pre[i] ELSE Absent]
  /\ nextId = MaxPre + 1
  /\ fm = Idle
  /\ jobs = <<>>
  /\ TaskVarsInit

SpecFair == InitFair /\ [][Next]_vars /\ FairTerminate

\* A fleet that an earlier tf_job("train", MaxPre) created and returned as a
\* Job: its instances carry the job's name and have booted since, or are still
\* pending, and the caller still holds that Job when the next fleet operation
\* is issued.
InitReuse ==
  /\ \E st \in [1..MaxPre -> {"pending", "running"}] :
       instances = [i \in InstIds |->
                      IF i <= MaxPre
                        THEN [state |-> st[i], name |-> "train", key |-> KEY_NAME]
                        ELSE Absent]
  /\ nextId = MaxPre + 1
  /\ fm = Idle
  /\ jobs = <<Job("train", [k \in 1..MaxPre |-> k])>>
  /\ TaskVarsInit

SpecReuse == InitReuse /\ [][Next]_vars

\* The streaming executor called on its own: with a connected client or one
\* that never connected, with or without each sink and a line_extractor.
InitStream ==
  /\ instances = [i \in InstIds |-> Absent]
  /\ nextId = MaxPre + 1
  /\ fm = Idle
  /\ jobs = <<>>
  /\ TaskVarsInit

ExecStep ==
  \/ \E connected \in BOOLEAN, stdout_file \in {None, "stdout_file"},
        stderr_file \in {None, "stderr_file"}, line_extractor \in BOOLEAN,
        ok_exit_status \in OkLists :
       ExecCall(SSHClient(1, 1, connected), stdout_file, stderr_file, line_extractor,
                ok_exit_status)
  \/ ExecCommand
  \/ \E d \in Streams : ExecStart(d)
  \/ \E d \in Streams : ExecJoin(d)
  \/ ExecRecvExit
  \/ ExecReturn

DrainStep == \E d \in Streams : DrainOpen(d) \/ DrainLine(d) \/ DrainEnd(d)

NextStream == ExecStep \/ DrainStep

SpecStream == InitStream /\ [][NextStream]_vars

\* Callers of run start from a Job whose Tasks are each as the calls before
\* left them: never initialized, or ready (wait_until_ready returned after one
\* initialize that connected: the Task has its own connected client).
TaskStates == {"fresh", "ready"}

\* SSHClient objects constructed in getting a Task to state st.
ClientsFor(st) == IF st = "fresh" THEN 0 ELSE 1

RECURSIVE ClientsUpTo(_, _)
ClientsUpTo(st, k) == IF k = 0 THEN 0 ELSE ClientsUpTo(st, k - 1) + ClientsFor(st[k])

TaskIn(task, st, id) ==
  IF st = "fresh" THEN task
  ELSE [task EXCEPT !.initialized = TRUE,
                    !.ssh_client = SSHClient(id, task.instance, TRUE),
                    !.connect_instructions = TODO_INSTRUCTIONS]

InitRun ==
  /\ instances = [i \in InstIds |->
                    IF i <= MaxPre
                      THEN [state |-> "running", name |-> "train", key |-> KEY_NAME]
                      ELSE Absent]
  /\ nextId = MaxPre + 1
  /\ fm = Idle
  /\ \E st \in [1..MaxPre -> TaskStates] :
       /\ jobs = <<[name |-> "train",
                    tasks |-> [k \in 1..MaxPre |->
                                 TaskIn(Task(k, "train", k - 1), st[k],
                                        ClientsUpTo(st, k))]]>>
       /\ nclients = ClientsUpTo(st, MaxPre)
  /\ stack = <<>>
  /\ call = NoCall
  /\ retval = Unset
  /\ sshlast = NoSsh
  /\ clock = 0
  /\ threads = <<>>
  /\ logdirs = {}
  /\ callers = NoCallers
  /\ ex = NoExec

RunStep ==
  \/ \E c \in Callers : \E j \in JobIds : \E t \in TaskIds(j) : RunEnter(c, j, t)
  \/ \E c \in Callers : RunTimestamp(c)
  \/ \E c \in Callers : RunSetStdout(c)
  \/ \E c \in Callers : RunSetStderr(c)
  \/ \E c \in Callers : RunStartThread(c)

NextRun == RunStep \/ \E k \in 1..Len(threads) : ThreadFinish(k)

SpecRun == InitRun /\ [][NextRun]_vars

\* ------------------------------------------------------------------ claims
TfJobDone == fm.op = "tf_job" /\ fm.pc = "done"
TerminateDone == fm.op = "terminate_job" /\ fm.pc = "done"
LastJob == jobs[Len(jobs)]
TaskInstances(job) == [k \in 1..Len(job.tasks) |-> job.tasks[k].instance]
NoRepeat(s) == \A a, b \in 1..Len(s) : a # b => s[a] # s[b]
LogIds(log, kind) == {log[k].id : k \in CallsOf(log, kind)}

\* C1: when the lookup of tf_job found no matching instance, tf_job returns having
\* issued one create request, for exactly num_tasks instances; every created
\* instance carries Name = name; the returned Job has one Task per created
\* instance and no other Task.
C1_FreshNameCreatesExactlyM ==
  (TfJobDone /\ fm.nfound = 0) =>
    /\ fm.outcome = "returned"
    /\ Cardinality(CallsOf(fm.log, "create")) = 1
    /\ \A k \in CallsOf(fm.log, "create") : fm.log[k].n = fm.num
    /\ Len(fm.created) = fm.num
    /\ NoRepeat(fm.created)
    /\ \A i \in Range(fm.created) : instances[i].name = fm.name
    /\ LogIds(fm.log, "tag") = Range(fm.created)
    /\ \A k \in CallsOf(fm.log, "tag") : fm.log[k].name = fm.name
    /\ Len(jobs) = fm.jobs0 + 1
    /\ LastJob.name = fm.name
    /\ TaskInstances(LastJob) = fm.created
    /\ \A k \in 1..Len(LastJob.tasks) : LastJob.tasks[k].id = k - 1

C1_Witness ==
  /\ TfJobDone /\ fm.nfound = 0 /\ fm.num = MaxTasks
  /\ fm.outcome = "returned"
  /\ Len(LastJob.tasks) = MaxTasks

\* C2: when the lookup of tf_job found N >= num_tasks instances, tf_job returns
\* a Job over exactly the N found instances (all of them, also when N is larger
\* than num_tasks) and has issued no create and no tag request.
C2_ReuseReturnsAllFound ==
  (TfJobDone /\ fm.nfound >= fm.num) =>
    /\ fm.outcome = "returned"
    /\ Len(fm.found) = fm.nfound
    /\ Len(jobs) = fm.jobs0 + 1
    /\ TaskInstances(LastJob) = fm.found
    /\ Len(LastJob.tasks) = fm.nfound
    /\ CallsOf(fm.log, "create") = {}
    /\ CallsOf(fm.log, "tag") = {}
    /\ fm.created = <<>>

C2_Witness ==
  /\ TfJobDone /\ fm.nfound > fm.num
  /\ fm.outcome = "returned"
  /\ Len(LastJob.tasks) = fm.nfound

\* C3: when the lookup of tf_job found N >= 1 instances and num_tasks > N, tf_job
\* fails with the fleet-size mismatch, no Job is constructed, and it has issued
\* no create, tag or terminate request.
C3_TooFewFoundFails ==
  (TfJobDone /\ fm.nfound >= 1 /\ fm.num > fm.nfound) =>
    /\ fm.outcome = "raised"
    /\ fm.exc = "FleetSizeMismatch"
    /\ Len(jobs) = fm.jobs0
    /\ \A k \in 1..Len(fm.log) : fm.log[k].call = "list"
    /\ fm.created = <<>>

C3_Witness ==
  /\ TfJobDone /\ fm.nfound >= 1 /\ fm.num > fm.nfound
  /\ fm.outcome = "raised"

\* The instances the specification says a lookup of name returns.
RunningWithNameAndKey(name) ==
  {i \in InstIds : /\ instances[i].state = "running"
                   /\ instances[i].name = name
                   /\ instances[i].key = KEY_NAME}

LookupStep == fm.pc = "lookup" /\ fm'.pc # "lookup"

\* C4: every lookup returns exactly the running instances whose Name tag is the
\* name asked for and whose key is KEY_NAME, each once; an instance with the name
\* and another key is not returned and not counted, and the lookup step fails
\* only for a tf_job whose found count is positive and below num_tasks, so a
\* tf_job that finds only instances with another key goes on to create.
C4_LookupSkipsOtherKeys ==
  [][LookupStep =>
       LET want == RunningWithNameAndKey(fm.name)
       IN  /\ Range(fm'.found) = want
           /\ Len(fm'.found) = Cardinality(want)
           /\ fm'.nfound = Cardinality(want)
           /\ \A i \in InstIds :
                (instances[i].name = fm.name /\ instances[i].key # KEY_NAME)
                  => i \notin Range(fm'.found)
           /\ (fm'.outcome = "raised") <=>
                (fm.op = "tf_job" /\ 0 < Cardinality(want) /\ Cardinality(want) < fm.num)
           /\ fm.op = "tf_job" => ((fm'.pc = "create") <=> (want = {}))
     ]_vars

C4_Witness ==
  /\ fm.op = "tf_job" /\ fm.pc = "create"
  /\ fm.skipped # {}

\* C5: when terminate_job has returned, it has issued a terminate request to
\* each instance its lookup returned and to no other, and the last state it
\* loaded of each of them is 'terminated'; a step of the waiting loop leaves the
\* provider's table as it is and issues no request that changes it.
C5_TerminateWaitsForAll ==
  /\ [](TerminateDone =>
          /\ fm.outcome = "returned"
          /\ LogIds(fm.log, "terminate") = Range(fm.found)
          /\ Cardinality(CallsOf(fm.log, "terminate")) = Len(fm.found)
          /\ CallsOf(fm.log, "create") = {} /\ CallsOf(fm.log, "tag") = {}
          /\ \A i \in Range(fm.found) : fm.obs[i] = "terminated")
  /\ [][(fm.op = "terminate_job" /\ fm.pc \in {"poll", "sleep"} /\ fm' # fm)
          => (instances' = instances /\ nextId' = nextId /\ fm'.log = fm.log)]_vars

C5_Witness ==
  /\ TerminateDone /\ Len(fm.found) >= 2
  /\ \A i \in Range(fm.found) : fm.obs[i] = "terminated"

TerminateWaiting ==
  /\ fm.op = "terminate_job" /\ fm.pc \in {"poll", "sleep"}
  /\ instances[fm.found[fm.idx]].state # "terminated"

\* C6: with every instance that was told to terminate reaching 'terminated', a
\* terminate_job that was called returns; and while the instance it waits for is
\* not 'terminated' it stays in the waiting loop on that instance, with no
\* outcome, and has loaded no instance after it.
C6_TerminateWaitUnbounded ==
  /\ (fm.op = "terminate_job" /\ fm.pc # "done")
       ~> (TerminateDone /\ fm.outcome = "returned")
  /\ [][TerminateWaiting =>
          /\ fm'.op = "terminate_job" /\ fm'.pc \in {"poll", "sleep"}
          /\ fm'.idx = fm.idx
          /\ fm'.outcome = "none"]_vars
  /\ [](fm.op = "terminate_job" /\ fm.pc \in {"poll", "sleep"} =>
          \A k \in (fm.idx + 1)..Len(fm.found) : fm.obs[fm.found[k]] = None)

C6_Witness ==
  /\ fm.op = "terminate_job" /\ fm.pc = "sleep"
  /\ instances[fm.found[fm.idx]].state = "shutting-down"
  /\ fm.idx < Len(fm.found)

AllTasks == UNION {{<<j, t>> : t \in TaskIds(j)} : j \in JobIds}
SshAttempts == Len(sshlast.log)

\* C7: a call of _ssh_to_host with retry = R makes at most R connection
\* attempts; only its last attempt can be a success, and a success ends the call
\* with the connected client; the R-th failure ends the call with None, which is
\* returned, not raised; the call does not end before a success or the R-th
\* failure.
C7_SshBoundedRetry ==
  /\ SshAttempts <= sshlast.retry
  /\ \A k \in 1..(SshAttempts - 1) : sshlast.log[k] = "fail"
  /\ (SshAttempts >= 1 /\ sshlast.log[SshAttempts] = "ok") =>
       /\ sshlast.returned
       /\ sshlast.value = SSHClient(sshlast.value.id, sshlast.host, TRUE)
  /\ (SshAttempts >= 1 /\ SshAttempts = sshlast.retry
        /\ sshlast.log[SshAttempts] = "fail") =>
       /\ sshlast.returned
       /\ sshlast.value = NoneClient
       /\ call.fn = "_ssh_to_host" => call.outcome = "returned"
  /\ sshlast.returned =>
       \/ SshAttempts = sshlast.retry
       \/ sshlast.log[SshAttempts] = "ok"
  /\ (call.fn = "_ssh_to_host" /\ call.outcome # "none") =>
       (call.outcome = "returned" /\ call.attempts = SshAttempts)

C7_Witness ==
  /\ call.fn = "_ssh_to_host" /\ call.outcome = "returned"
  /\ sshlast.retry = MaxRetry
  /\ sshlast.log = [k \in 1..MaxRetry |-> "fail"]
  /\ sshlast.value = NoneClient

\* C8: every Task starts with initialized = FALSE; a step that sets initialized
\* does so on the return of a connection to the Task's own instance that
\* succeeded, and stores that client; no step of any operation resets it.
C8_ReadinessMonotone ==
  /\ \A p \in AllTasks : ~jobs[p[1]].tasks[p[2]].initialized
  /\ [][\A p \in AllTasks :
          LET a == jobs[p[1]].tasks[p[2]]
              b == jobs'[p[1]].tasks[p[2]]
          IN  /\ a.initialized => b.initialized
              /\ (~a.initialized /\ b.initialized) =>
                   /\ retval = SSHClient(retval.id, a.instance, TRUE)
                   /\ b.ssh_client = retval
                   /\ sshlast.returned
                   /\ sshlast.value = retval
                   /\ sshlast.log[SshAttempts] = "ok"
                   /\ instances[a.instance].state = "running"]_vars

C8_Witness ==
  \E p \in AllTasks :
    /\ jobs[p[1]].tasks[p[2]].initialized
    /\ jobs[p[1]].tasks[p[2]].ssh_client.kind = "None"
    /\ call.fn = "initialize"
    /\ call.outcome = "returned"
    /\ call.pre[1].initialized
    /\ <<call.j, call.t>> = p

CallTask == jobs[call.j].tasks[call.t]

\* C9: a Task.wait_until_ready called on a Task that is ready makes no
\* connection attempt, constructs no client, does not sleep, calls nothing, and
\* returns leaving the Task as it was but for connect_instructions, which has
\* the value every return gives it; so a second call in a row changes nothing.
C9_WaitIdempotent ==
  (call.fn = "Task.wait_until_ready" /\ call.pre[1].initialized) =>
    /\ call.attempts = 0
    /\ call.sleeps = 0
    /\ Len(stack) <= 1
    /\ call.outcome # "raised"
    /\ call.outcome = "none" => (stack # <<>> /\ CallTask = call.pre[1])
    /\ call.outcome = "returned" =>
         /\ CallTask = [call.pre[1] EXCEPT !.connect_instructions = TODO_INSTRUCTIONS]
         /\ CallTask.initialized = call.pre[1].initialized
         /\ CallTask.ssh_client = call.pre[1].ssh_client
         /\ (call.pre[1].connect_instructions = TODO_INSTRUCTIONS
               => CallTask = call.pre[1])

C9_Witness ==
  /\ call.fn = "Task.wait_until_ready" /\ call.outcome = "returned"
  /\ call.pre[1].initialized
  /\ call.pre[1].connect_instructions = TODO_INSTRUCTIONS
  /\ CallTask = call.pre[1]

InJobWait == call.fn = "Job.wait_until_ready"

\* C10: when Job.wait_until_ready has returned every Task of the Job is
\* initialized; and a connection attempt made during the call is made for a
\* Task all of whose predecessors in the Job are initialized.
C10_JobWaitSequential ==
  /\ []((InJobWait /\ call.outcome = "returned") =>
          \A t \in TaskIds(call.j) : jobs[call.j].tasks[t].initialized)
  /\ [][(InJobWait /\ call'.attempts > call.attempts) =>
          /\ Len(stack) >= 2
          /\ stack[Len(stack) - 1].fn = "initialize"
          /\ stack[Len(stack) - 1].j = call.j
          /\ \A u \in 1..(stack[Len(stack) - 1].t - 1) :
               jobs[call.j].tasks[u].initialized]_vars

C10_Witness ==
  /\ InJobWait /\ call.outcome = "returned"
  /\ call.attempts >= 2
  /\ Len(jobs[call.j].tasks) >= 2

\* C11: a call of Task.wait_until_ready never ends by raising, whatever state
\* the Task's instance is in (its public address may not be there yet) and
\* however the connection attempts fail; it ends only by returning, and then
\* with initialized = TRUE.
C11_WaitNeverRaises ==
  call.fn = "Task.wait_until_ready" =>
    /\ call.outcome # "raised"
    /\ call.outcome = "returned" => CallTask.initialized

\* ------------------------------------------------------------------ Task.run
RunTask(inv) == jobs[callers.hist[inv].j].tasks[callers.hist[inv].t]

\* The threads started by invocations of run on the Task <<j, t>>.
ThreadsOf(j, t) == {k \in 1..Len(threads) : threads[k].j = j /\ threads[k].t = t}

\* The step in which an invocation of run is issued and fails its assertion.
RunRefused ==
  /\ Len(callers'.hist) = Len(callers.hist) + 1
  /\ callers'.hist[Len(callers'.hist)].outcome = "AssertionError"

\* C12: run on a Task that is not initialized fails with the assertion, and in
\* that step nothing else happens: no thread, no log directory, last_stdout and
\* last_stderr as they were, the caller outside run again; an invocation gets
\* past the assertion, and a thread is started, only for an initialized Task.
C12_RunRequiresInitialized ==
  /\ [][\A c \in Callers : \A j \in JobIds : \A t \in TaskIds(j) :
          (RunEnter(c, j, t) /\ ~jobs[j].tasks[t].initialized) =>
             /\ RunRefused
             /\ callers'.by = callers.by
             /\ UNCHANGED <<jobs, threads, logdirs, clock>>]_vars
  /\ [](\A inv \in 1..Len(callers.hist) :
          callers.hist[inv].outcome # "AssertionError" => RunTask(inv).initialized)
  /\ [](\A k \in 1..Len(threads) : jobs[threads[k].j].tasks[threads[k].t].initialized)

C12_Witness ==
  \E inv \in 1..Len(callers.hist) :
    /\ callers.hist[inv].outcome = "AssertionError"
    /\ ~RunTask(inv).initialized
    /\ RunTask(inv).last_stdout = <<>>
    /\ ThreadsOf(callers.hist[inv].j, callers.hist[inv].t) = {}
    /\ RunTask(inv).local_tasklogdir \notin logdirs
    /\ threads # <<>>

\* C13: any two invocations of run on the same Task compute different output
\* files, whatever clock values they read: no two threads started for one Task
\* have the same stdout file or the same stderr file.
C13_RunFilesDistinct ==
  \A k1, k2 \in 1..Len(threads) :
    (k1 # k2 /\ threads[k1].j = threads[k2].j /\ threads[k1].t = threads[k2].t) =>
      /\ threads[k1].stdout_file # threads[k2].stdout_file
      /\ threads[k1].stderr_file # threads[k2].stderr_file
      /\ threads[k1].stdout_file # threads[k2].stderr_file

\* The step in which an invocation of run starts its thread and returns.
RunReturns == Len(threads') = Len(threads) + 1

\* C14: run does not wait: the step in which it returns leaves the thread it
\* started still executing and the other threads as they were, so run can be
\* issued and return while the command of an earlier run is still executing.
C14_RunNonBlocking ==
  [][RunReturns =>
       /\ threads'[Len(threads')].pc = "running"
       /\ SubSeq(threads', 1, Len(threads)) = threads
       /\ \E c \in Callers :
            /\ callers.by[c].pc = "thread"
            /\ callers'.by[c].pc = "idle"
            /\ callers'.hist[callers.by[c].inv].outcome = "returned"]_vars

\* run returned for one invocation, its command is still executing, and an
\* invocation issued after that return has returned too (on another Task).
C14_Witness ==
  \E k1, k2 \in 1..Len(threads) :
    /\ k1 < k2
    /\ threads[k1].pc = "running"
    /\ <<threads[k1].j, threads[k1].t>> # <<threads[k2].j, threads[k2].t>>
    /\ callers.hist[threads[k1].inv].outcome = "returned"
    /\ callers.hist[threads[k2].inv].outcome = "returned"
    /\ callers.hist[threads[k2].inv].seen >= k1

\* No caller is inside run on the Task <<j, t>>.
RunQuiet(j, t) ==
  \A c \in Callers : callers.by[c].pc = "idle" \/ <<callers.by[c].j, callers.by[c].t>> # <<j, t>>

\* The thread of the invocation issued last among those of run on <<j, t>>
\* that got past the assertion.
LastIssued(j, t) ==
  CHOOSE k \in ThreadsOf(j, t) : \A m \in ThreadsOf(j, t) : threads[m].inv <= threads[k].inv

\* C20: once the invocations of run on a Task have returned, last_stdout and
\* last_stderr are the two files of one invocation, the one issued last, also
\* when the invocations were made by callers side by side.
C20_LastFilesOfLastRun ==
  \A p \in AllTasks :
    (RunQuiet(p[1], p[2]) /\ ThreadsOf(p[1], p[2]) # {}) =>
      /\ jobs[p[1]].tasks[p[2]].last_stdout = threads[LastIssued(p[1], p[2])].stdout_file
      /\ jobs[p[1]].tasks[p[2]].last_stderr = threads[LastIssued(p[1], p[2])].stderr_file

\* C18: no two distinct Task objects, of one Job or of two, have the same
\* local log directory or the same SSHClient object as their channel.
C18_TasksShareNothing ==
  \A p, q \in AllTasks :
    p # q =>
      LET a == jobs[p[1]].tasks[p[2]]
          b == jobs[q[1]].tasks[q[2]]
      IN  /\ a.local_tasklogdir # b.local_tasklogdir
          /\ (a.ssh_client.kind = "client" /\ b.ssh_client.kind = "client") =>
               a.ssh_client.id # b.ssh_client.id

\* ------------------------------------------------------ the streaming executor
ExecRunning == ex.pc \notin {"idle", "exec"} /\ ex.outcome # "SSHException"

\* C15: the executor starts a drain for each sink it was given and only for
\* those; both are started before it waits for either, so neither drain waits
\* for the other to end; and it reads the exit status and returns only after
\* every drain it started has ended.
C15_JoinsBeforeExitStatus ==
  ExecRunning =>
    \A d \in Streams :
      /\ Sink(d) = None => ex.drain[d].state = "none"
      /\ (Sink(d) # None /\ ex.pc \in {"join1", "join2"}) => ex.drain[d].state # "none"
      /\ (Sink(d) # None /\ ex.pc \in {"status", "return", "done"}) =>
           ex.drain[d].state = "done"
      /\ ex.pc \in {"start1", "start2", "join1", "join2"} => ex.exit_status = None

\* Both drains are in their loops at once, each with a line read, while the
\* executor waits for the first.
C15_Witness ==
  /\ ExecRunning
  /\ ex.pc = "join1"
  /\ \A d \in Streams :
       /\ ex.drain[d].state = "reading"
       /\ ex.drain[d].pos >= 1
       /\ ex.drain[d].pos < Len(ex.stream[d])

\* C16: once the remote command was started, the executor returns TRUE exactly
\* when the exit status it read is in ok_exit_status (by default [0]), FALSE
\* for every other status, and it does not raise.
C16_ReturnsExitOk ==
  (ExecRunning /\ ex.pc \in {"return", "done"}) =>
    /\ ex.exit_status \in ExitCodes
    /\ ex.outcome \in {"none", "returned"}
    /\ ex.pc = "done" =>
         /\ ex.outcome = "returned"
         /\ ex.result \in BOOLEAN
         /\ ex.result <=> (ex.exit_status \in ex.ok_exit_status)

C16_Witness ==
  /\ ExecRunning
  /\ ex.pc = "done"
  /\ ex.ok_exit_status = {0}
  /\ ex.exit_status = 1
  /\ ex.result = FALSE
  /\ ex.outcome = "returned"

\* The lines of stream d with valid bytes, in order.
ValidLines(d) == SelectSeq(ex.stream[d], LAMBDA w : w.valid)

\* What the sink of stream d holds before the first line: the command line for
\* stdout, nothing for stderr.
FileHead(d) == IF d = 1 THEN <<utf8_encode(<<"str", "cmd", 0>>)>> ELSE <<>>

\* C17: a decode error does not end a drain: when a drain has ended, every line
\* of its stream was read, each decode error was reported, and the sink holds
\* every line that decodes, in order; only the lines that do not are skipped.
C17_DecodeErrorSkipsLine ==
  ExecRunning =>
    \A d \in Streams :
      ex.drain[d].state = "done" =>
        /\ ex.drain[d].pos = Len(ex.stream[d])
        /\ ex.files[d] = FileHead(d) \o [k \in 1..Len(ValidLines(d)) |-> ValidLines(d)[k].bytes]
        /\ (d \in ex.printed) <=> (Len(ValidLines(d)) < Len(ex.stream[d]))

\* The lines drain d has read and decoded so far.
LinesRead(d) ==
  [k \in 1..(ex.drain[d].pos - (IF ex.drain[d].err THEN 1 ELSE 0)) |->
     utf8_decode(ex.stream[d][k].bytes)]

\* C19 as stated: line_extractor is called only for stdout lines, once for each
\* line read from stdout, and never for a line read from stderr.
C19_ObserverStdoutOnly ==
  ExecRunning =>
    /\ ex.observed[2] = <<>>
    /\ ex.line_extractor => ex.observed[1] = LinesRead(1)

\* C19, amended: line_extractor, when given, is called once for each line read
\* from stdout and once for each line read from stderr, in the order read; when
\* it is not given nothing is observed.
C19_ObserverBothStreams ==
  ExecRunning =>
    \A d \in Streams :
      ex.observed[d] = IF ex.line_extractor THEN LinesRead(d) ELSE <<>>

C19_Witness ==
  /\ ExecRunning
  /\ ex.pc = "done"
  /\ ex.line_extractor
  /\ \A d \in Streams : Len(ex.observed[d]) = MaxLines

\* ------------------------------------------------------- readiness and channel
\* C21: a Task with initialized = TRUE holds a client that is not None and whose
\* connect succeeded, after any sequence of operations, a further initialize
\* whose connection attempts all fail included.
C21_ReadyHasChannel ==
  \A p \in AllTasks :
    jobs[p[1]].tasks[p[2]].initialized =>
      /\ jobs[p[1]].tasks[p[2]].ssh_client.kind = "client"
      /\ jobs[p[1]].tasks[p[2]].ssh_client.connected

\* C22: _ssh_to_host returns a client only if one of its connection attempts
\* succeeded, whatever its retry count, 0 included, and None whenever none
\* succeeded; so a Task that initialize marked ready on a client has a client
\* that connected.
C22_ClientOnlyIfConnected ==
  /\ sshlast.returned =>
       /\ sshlast.value.kind \in {"client", "None"}
       /\ sshlast.value.kind = "client" <=>
            (SshAttempts >= 1 /\ sshlast.log[SshAttempts] = "ok")
       /\ sshlast.value.kind = "client" => sshlast.value.connected
  /\ \A p \in AllTasks :
       (jobs[p[1]].tasks[p[2]].initialized
          /\ jobs[p[1]].tasks[p[2]].ssh_client.kind = "client") =>
         jobs[p[1]].tasks[p[2]].ssh_client.connected
====
